---- MODULE Spec2Model ----
(***************************************************************************)
(* Model of tdms2h5 (src/tdms2h5.py): the conversion of a directory of     *)
(* per-slice TDMS files into one HDF5 container per TDMS group.            *)
(*                                                                         *)
(* Text is modelled as a tuple of one-character strings, so that prefix    *)
(* matching, int() and str() are computed rather than assumed.             *)
(***************************************************************************)
EXTENDS Integers, Sequences, FiniteSets, TLC

\* ------------------------------------------------------------------ bounds
MaxFiles == 3       \* input files in the input directory
MaxOffset == 1      \* each of the three offsets ranges over 0..MaxOffset
MaxLen == 3         \* samples of a long channel (a short one has 1)

\* --------------------------------------------------------------- constants
FILE_VERSION == 3
VERSION_KEY == "Version"
SLICES_KEY == "TDMSData"
INDEX_KEY == "Index"
LAYER_START_TIME_KEY == "LayerStartTime"
LAYER_END_TIME_KEY == "LayerEndTime"
PART_START_TIME_KEY == "PartStartTime"
PART_END_TIME_KEY == "PartEndTime"
TDMS_GROUP_NAME_KEY == "TDMS_GroupName"

\* The channels in the order tdms2h5 reads and stores them.
ChannelOrder == <<"LaserTTL", "Area", "Intensity", "Parameter", "X-Axis", "Y-Axis">>
ChannelNames == {ChannelOrder[i] : i \in 1..Len(ChannelOrder)}

\* ------------------------------------------------------------ typed values
IntV(n) == [t |-> "int", v |-> n]
FloatV(n) == [t |-> "float", v |-> n]
DateV(n) == [t |-> "datetime64", v |-> n]    \* n microseconds
StrV(n) == [t |-> "str", v |-> n]            \* the ISO text of n microseconds

\* np.datetime_as_string(value, unit='us', timezone='UTC')
datetime_as_string(value) == StrV(value.v)

\* ------------------------------------------------------- dicts and mappings
Put(f, k, v) == [x \in (DOMAIN f) \cup {k} |-> IF x = k THEN v ELSE f[x]]

\* A PropertyBag (an ordered dict): a sequence of <<key, value>> pairs.
HasKey(bag, k) == \E i \in 1..Len(bag) : bag[i][1] = k
GetKey(bag, k) == bag[CHOOSE i \in 1..Len(bag) : bag[i][1] = k][2]

\* ------------------------------------------------------------------- text
DigitChars == <<"0", "1", "2", "3", "4", "5", "6", "7", "8", "9">>
IsDigit(c) == \E i \in 1..Len(DigitChars) : DigitChars[i] = c
DigitVal(c) == (CHOOSE i \in 1..Len(DigitChars) : DigitChars[i] = c) - 1

\* int(text) of a non-empty run of digits
RECURSIVE DecVal(_)
DecVal(digits) ==
  IF digits = <<>> THEN 0
  ELSE 10 * DecVal(SubSeq(digits, 1, Len(digits) - 1)) + DigitVal(digits[Len(digits)])

\* str(n) of a non-negative integer
RECURSIVE DecStr(_)
DecStr(n) ==
  IF n < 10 THEN <<DigitChars[n + 1]>>
  ELSE DecStr(n \div 10) \o <<DigitChars[(n % 10) + 1]>>

IsPrefixAt(lit, text, i) ==
  /\ i + Len(lit) - 1 <= Len(text)
  /\ \A j \in 1..Len(lit) : text[i + j - 1] = lit[j]

\* re.match(pattern, name) for a literal pattern: the pattern is a prefix.
re_match(pattern, name) == IsPrefixAt(pattern, name, 1)

\* The greedy run of digits of text that starts at position i.
RECURSIVE DigitRun(_, _)
DigitRun(text, i) ==
  IF i <= Len(text) /\ IsDigit(text[i]) THEN <<text[i]>> \o DigitRun(text, i + 1)
  ELSE <<>>

\* regex_name.search(stem) for the pattern prefix(\d+) with a literal prefix:
\* group(1) of the leftmost match, or <<>> when nothing matches.
regex_search(prefix, stem) ==
  LET hits == {i \in 1..Len(stem) :
                 /\ IsPrefixAt(prefix, stem, i)
                 /\ DigitRun(stem, i + Len(prefix)) # <<>>}
  IN IF hits = {} THEN <<>>
     ELSE LET first == CHOOSE i \in hits : \A j \in hits : i <= j
          IN DigitRun(stem, first + Len(prefix))

\* --------------------------------------------------------------- sequences
\* data[start : stop] of Python, for any integers start and stop
SliceBound(i, n) == IF i < 0 THEN (IF i + n < 0 THEN 0 ELSE i + n)
                    ELSE IF i > n THEN n ELSE i
PySlice(data, start, stop) ==
  LET lo == SliceBound(start, Len(data))
      hi == SliceBound(stop, Len(data))
  IN IF lo >= hi THEN <<>> ELSE SubSeq(data, lo + 1, hi)

RECURSIVE Insert(_, _)
Insert(x, s) ==
  IF s = <<>> THEN <<x>>
  ELSE IF x <= Head(s) THEN <<x>> \o s
  ELSE <<Head(s)>> \o Insert(x, Tail(s))

\* Mutant of sorted: the list is left in the order it was appended in.
sortedNot(s) == s

\* sorted(slice_indices)
RECURSIVE sorted(_)
sorted(s) == IF s = <<>> THEN <<>> ELSE Insert(Head(s), sorted(Tail(s)))

\* ------------------------------------------------------------------ inputs
\* One channel of n samples; sample i holds the value i.
Samples(n) == [i \in 1..n |-> i]

\* A TDMS group: its name, its part-level properties and its channels.
TdmsGroup(name, n, thickness, missing) ==
  [name |-> name,
   properties |-> << <<"StartTime", DateV(3)>>, <<"EndTime", DateV(4)>> >>
                  \o (IF thickness THEN << <<"layerThickness", IntV(40)>> >> ELSE <<>>),
   channels |-> [c \in ChannelNames \ missing |-> Samples(n)]]

\* A TDMS file: its layer-level properties and its groups, in file order.
TdmsFile(thickness, bitgain2, grps) ==
  [properties |-> << <<"StartTime", DateV(1)>>, <<"EndTime", DateV(2)>>,
                     <<"Bitgain OS 1", FloatV(2)>> >>
                  \o (IF bitgain2 THEN << <<"Bitgain OS 2", FloatV(4)>> >> ELSE <<>>)
                  \o (IF thickness THEN << <<"layerThickness", IntV(30)>> >> ELSE <<>>),
   groups |-> grps]

NameA == <<"a">>
NameAB == <<"a", "b">>
NameB == <<"b">>

\* The file contents the input directory is drawn from; a file of the
\* directory is held as its position in this table.
Bodies ==
  << TdmsFile(TRUE, TRUE, <<>>),
     TdmsFile(TRUE, TRUE, << TdmsGroup(NameB, MaxLen, FALSE, {}),
                             TdmsGroup(NameA, MaxLen, FALSE, {}) >>),
     [TdmsFile(TRUE, TRUE, << TdmsGroup(NameA, 1, TRUE, {}) >>)
        EXCEPT !.properties = @ \o << <<PART_START_TIME_KEY, DateV(9)>> >>],
     TdmsFile(FALSE, TRUE, << TdmsGroup(NameA, MaxLen, TRUE, {}),
                              TdmsGroup(NameB, MaxLen, FALSE, {}) >>),
     TdmsFile(TRUE, TRUE, << TdmsGroup(NameAB, MaxLen, FALSE, {"Area"}) >>),
     TdmsFile(TRUE, FALSE, << TdmsGroup(NameA, MaxLen, FALSE, {}) >>) >>

\* The file stems of the input directory: Slice1, Slice01, Slice2 and Tile1.
Prefix == <<"S">>
Stems == { <<"S", "1">>, <<"S", "0", "1">>, <<"S", "2">>, <<"T", "1">> }

Directories ==
  UNION { { f \in [S -> 1..Len(Bodies)] :
              \A s \in S : regex_search(Prefix, s) = <<>> => f[s] = 1 }
          : S \in { T \in SUBSET Stems : Cardinality(T) <= MaxFiles } }

GroupFilters == { <<>>, <<NameA>> }

\* ------------------------------------------------------------------- state
VARIABLES
  input_dir,        \* [exists, files]: the input directory, stem -> file of Bodies
  output_dir,       \* whether the output directory exists
  args,             \* area_offset, intensity_offset, laser_offset, groups
  pc,               \* "start", "main", "finalize", "done", "error"
  paths,            \* the stems the paths generator has still to yield
  h5_files,         \* group name -> output container
  exitStack,        \* the containers entered into the ExitStack, in order
  slice_indices,    \* the slice indices appended so far
  finalized,        \* the containers index finalization has been through
  err               \* [kind, stage] of the exception that ended the run

vars == <<input_dir, output_dir, args, pc, paths, h5_files, exitStack,
          slice_indices, finalized, err>>

NoError == [kind |-> "none", stage |-> "none"]

\* ------------------------------------------------------- Metadata Normalizer
layer_replacements ==
  [k \in {"StartTime", "EndTime"} |->
     IF k = "StartTime" THEN LAYER_START_TIME_KEY ELSE LAYER_END_TIME_KEY]

\* Mutant of part_replacements: the part-level keys are not renamed.
part_replacementsNone == [k \in {} |-> k]

part_replacements ==
  [k \in {"StartTime", "EndTime"} |->
     IF k = "StartTime" THEN PART_START_TIME_KEY ELSE PART_END_TIME_KEY]

RECURSIVE write_tdms_properties(_, _, _)
write_tdms_properties(attrs, tdms_dict, replacements) ==
  IF tdms_dict = <<>> THEN attrs
  ELSE LET k == Head(tdms_dict)[1]
           value == Head(tdms_dict)[2]
           key == IF k \in DOMAIN replacements THEN replacements[k] ELSE k
           stored == IF value.t = "datetime64" THEN datetime_as_string(value)
                     ELSE value
       IN write_tdms_properties(Put(attrs, key, stored), Tail(tdms_dict), replacements)

\* ----------------------------------------------------------- Channel Aligner
Dataset(data, dtype, units) == [data |-> data, dtype |-> dtype, units |-> units]

\* data[offset : len(data) - offset]
Trim(data, offset) == PySlice(data, offset, Len(data) - offset)

\* x_channel[:] / bitgain
Scaled(data, bitgain) == [i \in 1..Len(data) |-> [num |-> data[i], den |-> bitgain.v]]

\* The dataset tdms2h5 stores for channel c of a group.
StoredChannel(c, data, bitgain_os_1, bitgain_os_2) ==
  CASE c = "LaserTTL" -> Dataset(Trim(data, args.laser_offset), "native", "")
    [] c = "Area" -> Dataset(Trim(data, args.area_offset), "native", "")
    [] c = "Intensity" -> Dataset(Trim(data, args.intensity_offset), "native", "")
    [] c = "Parameter" -> Dataset(data, "native", "")
    [] c = "X-Axis" -> Dataset(Scaled(data, bitgain_os_1), "float32", "um")
    [] c = "Y-Axis" -> Dataset(Scaled(data, bitgain_os_2), "float32", "um")

\* The six create_dataset calls, from channel i of ChannelOrder on: the node
\* as far as it was written, and the KeyError of a channel the group lacks.
RECURSIVE WriteChannels(_, _, _, _, _)
WriteChannels(node, group, bitgain_os_1, bitgain_os_2, i) ==
  IF i > Len(ChannelOrder) THEN [node |-> node, err |-> "none"]
  ELSE LET c == ChannelOrder[i]
       IN IF c \notin DOMAIN group.channels THEN [node |-> node, err |-> "KeyError"]
          ELSE WriteChannels(
                 [node EXCEPT !.datasets =
                    Put(@, c, StoredChannel(c, group.channels[c], bitgain_os_1, bitgain_os_2))],
                 group, bitgain_os_1, bitgain_os_2, i + 1)

\* -------------------------------------------------------------- Group Writer
NoIndex == [present |-> FALSE, rows |-> <<>>, columns |-> <<>>]

\* h5py.File(output_file_path, 'w') and the lines that follow it
NewContainer(name) ==
  [open |-> TRUE,
   attrs |-> Put(<<>>, VERSION_KEY, FILE_VERSION),
   slices |-> [attrs |-> Put(<<>>, TDMS_GROUP_NAME_KEY, name), nodes |-> <<>>],
   Index |-> NoIndex]

\* Mutant of GetOrCreate: the container is opened anew at every observation.
GetOrCreateAnew(st, name) ==
  [st EXCEPT !.h5_files = Put(@, name, NewContainer(name)),
             !.exitStack = Append(@, name)]

\* if group.name not in h5_files: ... (st is the run's mutable state)
GetOrCreate(st, name) ==
  IF name \in DOMAIN st.h5_files THEN st
  ELSE [st EXCEPT !.h5_files = Put(@, name, NewContainer(name)),
                  !.exitStack = Append(@, name)]

\* Mutant of GroupSelected: the --groups filter is ignored.
GroupSelectedAll(name) == TRUE

\* if groups and not any(re.match(pattern, group.name) ...): continue
GroupSelected(name) ==
  \/ args.groups = <<>>
  \/ \E i \in 1..Len(args.groups) : re_match(args.groups[i], name)

\* Mutant of WriteGroup: the slice node is opened with require_group, so that
\* a second file of the same slice index writes over the node of the first.
WriteGroupOver(st, slice_index, file, group) ==
  LET st1 == GetOrCreate(st, group.name)
      key == DecStr(slice_index)
      layer == write_tdms_properties(<<>>, file.properties, layer_replacements)
      both == write_tdms_properties(layer, group.properties, part_replacements)
      w == WriteChannels([attrs |-> both, datasets |-> <<>>], group,
                         GetKey(file.properties, "Bitgain OS 1"),
                         GetKey(file.properties, "Bitgain OS 2"), 1)
  IN [st1 EXCEPT !.h5_files[group.name].slices.nodes = Put(@, key, w.node),
                 !.err = w.err]

\* The body of the loop over the groups of one file, for one group.
WriteGroup(st, slice_index, file, group) ==
  LET st1 == GetOrCreate(st, group.name)
      key == DecStr(slice_index)
  IN IF key \in DOMAIN st1.h5_files[group.name].slices.nodes
     THEN [st1 EXCEPT !.err = "ValueError"]      \* create_group: name already exists
     ELSE LET layer == write_tdms_properties(<<>>, file.properties, layer_replacements)
              both == write_tdms_properties(layer, group.properties, part_replacements)
              w == WriteChannels([attrs |-> both, datasets |-> <<>>], group,
                                 GetKey(file.properties, "Bitgain OS 1"),
                                 GetKey(file.properties, "Bitgain OS 2"), 1)
          IN [st1 EXCEPT !.h5_files[group.name].slices.nodes = Put(@, key, w.node),
                         !.err = w.err]

\* for group in tdmsFile.groups(), from group i on; an exception ends the loop.
RECURSIVE WriteGroups(_, _, _, _)
WriteGroups(st, slice_index, file, i) ==
  IF i > Len(file.groups) \/ st.err # "none" THEN st
  ELSE LET group == file.groups[i]
       IN WriteGroups(IF GroupSelected(group.name)
                      THEN WriteGroup(st, slice_index, file, group)
                      ELSE st,
                      slice_index, file, i + 1)

\* One iteration of the loop over the input paths.
ConvertFile(st, stem) ==
  LET file == Bodies[input_dir.files[stem]]
      slice_index == DecVal(regex_search(Prefix, stem))
      st1 == [st EXCEPT !.slice_indices = Append(@, slice_index)]
  IN IF ~HasKey(file.properties, "Bitgain OS 1") \/ ~HasKey(file.properties, "Bitgain OS 2")
     THEN [st1 EXCEPT !.err = "KeyError"]
     ELSE WriteGroups(st1, slice_index, file, 1)

\* ------------------------------------------------------------ Index Finalizer
IndexColumns == <<"SliceIndex", "LayerThickness (um)", "NumVertices">>

\* Mutant of IndexRows: a slice node without layerThickness gets the value 0.
RECURSIVE IndexRowsDefaulted(_, _)
IndexRowsDefaulted(h5_file, indices) ==
  IF indices = <<>> THEN [rows |-> <<>>, err |-> "none"]
  ELSE LET key == DecStr(Head(indices))
           nodes == h5_file.slices.nodes
       IN IF key \notin DOMAIN nodes THEN [rows |-> <<>>, err |-> "KeyError"]
          ELSE IF "X-Axis" \notin DOMAIN nodes[key].datasets
          THEN [rows |-> <<>>, err |-> "KeyError"]
          ELSE LET rest == IndexRowsDefaulted(h5_file, Tail(indices))
                   row == <<Head(indices),
                            IF "layerThickness" \in DOMAIN nodes[key].attrs
                            THEN nodes[key].attrs["layerThickness"].v ELSE 0,
                            Len(nodes[key].datasets["X-Axis"].data)>>
               IN [rows |-> <<row>> \o rest.rows, err |-> rest.err]

\* The rows of index_dataset for one container, or the KeyError of a slice
\* node, attribute or dataset the container lacks.
RECURSIVE IndexRows(_, _)
IndexRows(h5_file, indices) ==
  IF indices = <<>> THEN [rows |-> <<>>, err |-> "none"]
  ELSE LET key == DecStr(Head(indices))
           nodes == h5_file.slices.nodes
       IN IF key \notin DOMAIN nodes THEN [rows |-> <<>>, err |-> "KeyError"]
          ELSE IF "layerThickness" \notin DOMAIN nodes[key].attrs
          THEN [rows |-> <<>>, err |-> "KeyError"]
          ELSE IF "X-Axis" \notin DOMAIN nodes[key].datasets
          THEN [rows |-> <<>>, err |-> "KeyError"]
          ELSE LET rest == IndexRows(h5_file, Tail(indices))
                   row == <<Head(indices), nodes[key].attrs["layerThickness"].v,
                            Len(nodes[key].datasets["X-Axis"].data)>>
               IN [rows |-> <<row>> \o rest.rows, err |-> rest.err]

\* The body of the loop over h5_files.values(): the Index dataset is created
\* once every row has been filled in.
FinalizeFile(h5_file, indices) ==
  LET r == IndexRows(h5_file, indices)
  IN IF r.err # "none" THEN [file |-> h5_file, err |-> r.err]
     ELSE [file |-> [h5_file EXCEPT !.Index = [present |-> TRUE, rows |-> r.rows,
                                               columns |-> IndexColumns]],
           err |-> "none"]

\* ----------------------------------------------------------------- the run
\* Mutant of ExitStackClose: the containers are opened outside any context
\* manager, so that nothing closes them when the block is left.
ExitStackLeak(files, stack) == files

\* ExitStack.__exit__: every container entered into the stack is closed.
ExitStackClose(files, stack) ==
  [g \in DOMAIN files |->
     IF \E i \in 1..Len(stack) : stack[i] = g THEN [files[g] EXCEPT !.open = FALSE]
     ELSE files[g]]

\* Mutant of Outcome: the exception is caught and logged, and the run goes on.
OutcomeSwallowed(kind, stage, next) ==
  [pc |-> next,
   err |-> IF kind # "none" THEN [kind |-> kind, stage |-> stage] ELSE NoError]

\* An exception leaves the with block and ends the run; otherwise the run
\* goes on at `next`.
Outcome(kind, stage, next) ==
  IF kind # "none" THEN [pc |-> "error", err |-> [kind |-> kind, stage |-> stage]]
  ELSE [pc |-> next, err |-> NoError]

\* filter(lambda item: regex_name.search(item.stem), input_dir.glob(...)):
\* a directory that does not exist yields no path.
GlobPaths ==
  IF input_dir.exists
  THEN {s \in DOMAIN input_dir.files : regex_search(Prefix, s) # <<>>}
  ELSE {}

State == [h5_files |-> h5_files, exitStack |-> exitStack,
          slice_indices |-> slice_indices, err |-> "none"]

Offsets == 0..MaxOffset

\* The runs explored: any directory of at most MaxFiles files converted with
\* one offset common to the three channels, and any directory of at most one
\* file converted with any three offsets.
Init ==
  /\ input_dir \in {[exists |-> FALSE, files |-> <<>>]}
                   \cup {[exists |-> TRUE, files |-> f] : f \in Directories}
  /\ output_dir \in BOOLEAN
  /\ args \in [area_offset : Offsets, intensity_offset : Offsets,
               laser_offset : Offsets, groups : GroupFilters]
  /\ \/ Cardinality(DOMAIN input_dir.files) <= 1
     \/ /\ args.area_offset = args.laser_offset
        /\ args.intensity_offset = args.laser_offset
  /\ pc = "start"
  /\ paths = {}
  /\ h5_files = <<>>
  /\ exitStack = <<>>
  /\ slice_indices = <<>>
  /\ finalized = 0
  /\ err = NoError

\* output_dir.mkdir, input_dir.glob and the filter on regex_name
Start ==
  /\ pc = "start"
  /\ output_dir' = TRUE
  /\ paths' = GlobPaths
  /\ pc' = "main"
  /\ UNCHANGED <<input_dir, args, h5_files, exitStack, slice_indices, finalized, err>>

\* One iteration of the loop over the paths, in the order glob yields them.
Convert(stem) ==
  /\ pc = "main"
  /\ stem \in paths
  /\ LET st == ConvertFile(State, stem)
         out == Outcome(st.err, "main", "main")
     IN /\ paths' = paths \ {stem}
        /\ exitStack' = st.exitStack
        /\ slice_indices' = st.slice_indices
        /\ h5_files' = IF out.pc = "error" THEN ExitStackClose(st.h5_files, st.exitStack)
                       ELSE st.h5_files
        /\ pc' = out.pc
        /\ err' = out.err
  /\ UNCHANGED <<input_dir, output_dir, args, finalized>>

\* slice_indices = sorted(slice_indices)
SortIndices ==
  /\ pc = "main"
  /\ paths = {}
  /\ slice_indices' = sorted(slice_indices)
  /\ pc' = "finalize"
  /\ UNCHANGED <<input_dir, output_dir, args, paths, h5_files, exitStack, finalized, err>>

\* One iteration of the loop over h5_files.values(), in insertion order.
Finalize ==
  /\ pc = "finalize"
  /\ finalized < Len(exitStack)
  /\ LET name == exitStack[finalized + 1]
         r == FinalizeFile(h5_files[name], slice_indices)
         out == Outcome(r.err, "finalize", "finalize")
         files == [h5_files EXCEPT ![name] = r.file]
     IN /\ h5_files' = IF out.pc = "error" THEN ExitStackClose(files, exitStack)
                       ELSE files
        /\ pc' = out.pc
        /\ err' = out.err
  /\ finalized' = finalized + 1
  /\ UNCHANGED <<input_dir, output_dir, args, paths, exitStack, slice_indices>>

\* The with block is left normally.
Exit ==
  /\ pc = "finalize"
  /\ finalized = Len(exitStack)
  /\ h5_files' = ExitStackClose(h5_files, exitStack)
  /\ pc' = "done"
  /\ UNCHANGED <<input_dir, output_dir, args, paths, exitStack, slice_indices,
                 finalized, err>>

Next ==
  \/ Start
  \/ \E stem \in Stems : Convert(stem)
  \/ SortIndices
  \/ Finalize
  \/ Exit

Spec == Init /\ [][Next]_vars

\* ------------------------------------------------- the run as one function
\* The loop over the paths taken in the order given, up to the first exception.
RECURSIVE ConvertAll(_, _)
ConvertAll(st, order) ==
  IF order = <<>> \/ st.err # "none" THEN st
  ELSE ConvertAll(ConvertFile(st, Head(order)), Tail(order))

\* The loop over h5_files.values(), up to the first exception.
RECURSIVE FinalizeAll(_, _, _)
FinalizeAll(files, stack, indices) ==
  IF stack = <<>> THEN [files |-> files, err |-> "none"]
  ELSE LET r == FinalizeFile(files[Head(stack)], indices)
       IN IF r.err # "none" THEN [files |-> files, err |-> r.err]
          ELSE FinalizeAll([files EXCEPT ![Head(stack)] = r.file], Tail(stack), indices)

\* What a whole run leaves behind when glob yields the paths in `order`.
tdms2h5(order) ==
  LET st == ConvertAll([h5_files |-> <<>>, exitStack |-> <<>>,
                        slice_indices |-> <<>>, err |-> "none"], order)
  IN IF st.err # "none"
     THEN [h5_files |-> ExitStackClose(st.h5_files, st.exitStack),
           err |-> Outcome(st.err, "main", "main").err]
     ELSE LET f == FinalizeAll(st.h5_files, st.exitStack, sorted(st.slice_indices))
          IN [h5_files |-> ExitStackClose(f.files, st.exitStack),
              err |-> Outcome(f.err, "finalize", "done").err]

\* The orders in which glob may yield the paths of a set.
RECURSIVE Orders(_)
Orders(S) ==
  IF S = {} THEN {<<>>}
  ELSE UNION { { <<x>> \o o : o \in Orders(S \ {x}) } : x \in S }

\* --------------------------------------------------------- helpers of claims
Nodes(files, g) == files[g].slices.nodes
Ended == pc \in {"done", "error"}
SliceKey(stem) == DecStr(DecVal(regex_search(Prefix, stem)))
Lacks(files, g, k, attr) == attr \notin DOMAIN Nodes(files, g)[k].attrs

\* Every slice node written before a step is still there, unchanged.
NodesKept ==
  \A g \in DOMAIN h5_files :
    /\ g \in DOMAIN h5_files'
    /\ \A k \in DOMAIN Nodes(h5_files, g) :
         /\ k \in DOMAIN Nodes(h5_files', g)
         /\ Nodes(h5_files', g)[k] = Nodes(h5_files, g)[k]

\* ------------------------------------------------------------------- claims

\* C1: in every container that has an Index dataset, the rows are sorted
\* strictly ascending by slice index and there is exactly one row per slice
\* node written to that container (none for a slice the container lacks,
\* none repeated).
C1_IndexSortedOnePerSlice ==
  \A g \in DOMAIN h5_files :
    h5_files[g].Index.present =>
      LET rows == h5_files[g].Index.rows
      IN /\ \A i \in 1..(Len(rows) - 1) : rows[i][1] < rows[i + 1][1]
         /\ {DecStr(rows[i][1]) : i \in 1..Len(rows)} = DOMAIN Nodes(h5_files, g)

\* C2 (as claimed): however a run ends, its containers are those of the same
\* run with the paths taken in any other order.
C2_OrderIndependent ==
  Ended => \A order \in Orders(GlobPaths) : tdms2h5(order).h5_files = h5_files

\* C2 (amended): a run that completes without error leaves the containers
\* that the same run leaves with the paths taken in any other order, and
\* that run completes without error too.
C2_OrderIndependentOnSuccess ==
  pc = "done" =>
    \A order \in Orders(GlobPaths) :
      /\ tdms2h5(order).err = NoError
      /\ tdms2h5(order).h5_files = h5_files

C2_Witness ==
  /\ pc = "done"
  /\ Cardinality(GlobPaths) >= 2
  /\ \E g \in DOMAIN h5_files :
       /\ Cardinality(DOMAIN Nodes(h5_files, g)) >= 2
       /\ h5_files[g].Index.present

\* C3: each group name has exactly one container handle, created once with
\* Version = 3 and a TDMSData subtree whose TDMS_GroupName is the group name;
\* no step re-creates a container or alters a slice node already written.
C3_OneContainerPerGroup ==
  [][ /\ \A i, j \in 1..Len(exitStack') : exitStack'[i] = exitStack'[j] => i = j
      /\ {exitStack'[i] : i \in 1..Len(exitStack')} = DOMAIN h5_files'
      /\ SubSeq(exitStack', 1, Len(exitStack)) = exitStack
      /\ \A g \in DOMAIN h5_files' :
           /\ h5_files'[g].attrs = Put(<<>>, VERSION_KEY, 3)
           /\ h5_files'[g].slices.attrs = Put(<<>>, TDMS_GROUP_NAME_KEY, g)
      /\ NodesKept ]_vars

C3_Witness ==
  \E g \in DOMAIN h5_files : Cardinality(DOMAIN Nodes(h5_files, g)) >= 2

\* The step converts the file `stem`.
Converts(stem) == stem \in paths /\ stem \notin paths'

\* Group i of the file `stem` is reached by the loop over its groups: the
\* bitgain properties are there and no earlier selected group raised (a
\* channel it lacks, or a slice node its container already has).
Encountered(stem, i) ==
  LET file == Bodies[input_dir.files[stem]]
  IN /\ HasKey(file.properties, "Bitgain OS 1")
     /\ HasKey(file.properties, "Bitgain OS 2")
     /\ \A j \in 1..(i - 1) :
          LET g == file.groups[j]
          IN GroupSelected(g.name) =>
               /\ DOMAIN g.channels = ChannelNames
               /\ ~(/\ g.name \in DOMAIN h5_files
                    /\ SliceKey(stem) \in DOMAIN Nodes(h5_files, g.name))

\* The step writes a new slice node for group i of the file `stem`.
WritesNode(stem, i) ==
  LET g == Bodies[input_dir.files[stem]].groups[i].name
  IN /\ Converts(stem)
     /\ g \in DOMAIN h5_files'
     /\ SliceKey(stem) \in DOMAIN Nodes(h5_files', g)
     /\ ~(g \in DOMAIN h5_files /\ SliceKey(stem) \in DOMAIN Nodes(h5_files, g))

GroupsOf(stem) == Bodies[input_dir.files[stem]].groups

\* C4: with a non-empty --groups filter no container exists whose group name
\* matches none of its patterns; with an empty filter every group the loop
\* reaches in a converted file has a container, and containers stay.
C4_GroupFilter ==
  [][ /\ args.groups # <<>> =>
           \A g \in DOMAIN h5_files' :
             \E i \in 1..Len(args.groups) : re_match(args.groups[i], g)
      /\ args.groups = <<>> =>
           \A stem \in DOMAIN input_dir.files : \A i \in 1..Len(GroupsOf(stem)) :
             (Converts(stem) /\ Encountered(stem, i)) =>
                GroupsOf(stem)[i].name \in DOMAIN h5_files'
      /\ DOMAIN h5_files \subseteq DOMAIN h5_files' ]_vars

C4_Witness ==
  /\ args.groups # <<>>
  /\ pc = "done"
  /\ NameA \in DOMAIN h5_files
  /\ \E stem \in GlobPaths : \E i \in 1..Len(GroupsOf(stem)) :
       GroupsOf(stem)[i].name = NameB

OffsetOf(c) ==
  CASE c = "LaserTTL" -> args.laser_offset
    [] c = "Area" -> args.area_offset
    [] c = "Intensity" -> args.intensity_offset

Trimmed == {"LaserTTL", "Area", "Intensity"}

\* C5: every slice node written holds LaserTTL, Area and Intensity as the
\* input without its first and last `offset` samples (length: input length
\* minus twice the offset; with offset 0 the input itself), and Parameter
\* as the whole input.
C5_TrimmedLengths ==
  [][ \A stem \in DOMAIN input_dir.files : \A i \in 1..Len(GroupsOf(stem)) :
        WritesNode(stem, i) =>
          LET group == GroupsOf(stem)[i]
              stored == Nodes(h5_files', group.name)[SliceKey(stem)].datasets
          IN /\ \A c \in Trimmed \cap DOMAIN stored :
                  LET input == group.channels[c]
                  IN /\ Len(stored[c].data) = Len(input) - 2 * OffsetOf(c)
                     /\ stored[c].data
                          = SubSeq(input, OffsetOf(c) + 1, Len(input) - OffsetOf(c))
                     /\ OffsetOf(c) = 0 => stored[c].data = input
             /\ "Parameter" \in DOMAIN stored =>
                  stored["Parameter"].data = group.channels["Parameter"] ]_vars

\* C6: when group i of a converted file is reached and selected, and the
\* offset of one of its trimmed channels exceeds half the channel's length,
\* the run fails with a DataError at that file and stores no dataset for
\* that channel.
C6_OffsetTooLargeFails ==
  [][ \A stem \in DOMAIN input_dir.files : \A i \in 1..Len(GroupsOf(stem)) :
        LET group == GroupsOf(stem)[i]
        IN \A c \in Trimmed \cap DOMAIN group.channels :
             ( /\ Converts(stem)
               /\ Encountered(stem, i)
               /\ GroupSelected(group.name)
               /\ DOMAIN group.channels = ChannelNames
               /\ 2 * OffsetOf(c) > Len(group.channels[c]) )
             => /\ pc' = "error"
                /\ err'.kind = "DataError"
                /\ \A k \in DOMAIN Nodes(h5_files', group.name) :
                     c \notin DOMAIN Nodes(h5_files', group.name)[k].datasets ]_vars

\* C7: when the run has ended, normally or by an exception of the main pass
\* or of index finalization, no container is open.
C7_AllClosedAtExit ==
  Ended => \A g \in DOMAIN h5_files : ~h5_files[g].open

C7_Witness ==
  /\ pc = "error"
  /\ err.stage = "main"
  /\ Cardinality(DOMAIN h5_files) >= 2

\* C8: the step in which the main pass fails keeps every slice node written
\* before it and leaves no container with an Index dataset, and after it
\* nothing more happens: no file is converted, no container is written.
C8_MainFailureAborts ==
  [][ /\ err'.stage = "main" =>
           /\ pc' = "error"
           /\ NodesKept
           /\ \A g \in DOMAIN h5_files' : ~h5_files'[g].Index.present
      /\ err.stage = "main" => UNCHANGED vars ]_vars

C8_Witness ==
  /\ err.stage = "main"
  /\ paths # {}
  /\ \E g \in DOMAIN h5_files : \E k \in DOMAIN Nodes(h5_files, g) :
       DOMAIN Nodes(h5_files, g)[k].datasets = ChannelNames

SomeNodeLacksThickness(files) ==
  \E g \in DOMAIN files : \E k \in DOMAIN Nodes(files, g) :
    Lacks(files, g, k, "layerThickness")

FinalizationReached == pc = "done" \/ (pc = "error" /\ err.stage = "finalize")

\* C9 (as claimed): when index finalization was reached and some slice node
\* lacks layerThickness, finalization has failed and no container of the run
\* has an Index dataset.
C9_NoIndexAnywhere ==
  (FinalizationReached /\ SomeNodeLacksThickness(h5_files)) =>
     /\ pc = "error"
     /\ \A g \in DOMAIN h5_files : ~h5_files[g].Index.present

\* C9 (amended): index finalization does not complete while a slice node
\* lacks layerThickness and never writes a defaulted value; the step in which
\* it fails keeps every slice node, and leaves an Index dataset in exactly
\* the containers created before the one it failed at.
C9_FailsWithoutDefault ==
  [][ /\ pc' = "done" => ~SomeNodeLacksThickness(h5_files')
      /\ \A g \in DOMAIN h5_files' :
           h5_files'[g].Index.present =>
             \A i \in 1..Len(h5_files'[g].Index.rows) :
               LET row == h5_files'[g].Index.rows[i]
                   node == Nodes(h5_files', g)[DecStr(row[1])]
               IN /\ ~Lacks(h5_files', g, DecStr(row[1]), "layerThickness")
                  /\ row[2] = node.attrs["layerThickness"].v
      /\ (pc' = "error" /\ err'.stage = "finalize") =>
           /\ err'.kind = "KeyError"
           /\ NodesKept
           /\ \A i \in 1..Len(exitStack') :
                h5_files'[exitStack'[i]].Index.present <=> i < finalized' ]_vars

C9_Witness ==
  /\ pc = "error"
  /\ err.stage = "finalize"
  /\ SomeNodeLacksThickness(h5_files)
  /\ \E g \in DOMAIN h5_files :
       /\ h5_files[g].Index.present
       /\ \A k \in DOMAIN Nodes(h5_files, g) : ~Lacks(h5_files, g, k, "layerThickness")

\* C10: when the input directory does not exist the run fails with a
\* ConfigurationError: it does not go on to the main pass, does not create
\* the output directory and creates no container.
C10_MissingInputDirFails ==
  [][ ~input_dir.exists =>
        /\ pc' = "error"
        /\ err'.kind = "ConfigurationError"
        /\ output_dir' = output_dir
        /\ h5_files' = <<>> ]_vars

\* The key the claim gives a property of a level ("Layer" or "Part"), and
\* the value stored for it.
Dest(k, level) ==
  IF k = "StartTime" THEN (IF level = "Layer" THEN "LayerStartTime" ELSE "PartStartTime")
  ELSE IF k = "EndTime" THEN (IF level = "Layer" THEN "LayerEndTime" ELSE "PartEndTime")
  ELSE k
StoredValue(value) == IF value.t = "datetime64" THEN StrV(value.v) ELSE value

\* The positions of a bag whose property is stored under `key`.
Sources(bag, level, key) == {i \in 1..Len(bag) : Dest(bag[i][1], level) = key}

\* The value of the last property of a bag that is stored under `key`.
LastStored(bag, level, key) ==
  LET src == Sources(bag, level, key)
  IN StoredValue(bag[CHOOSE i \in src : \A j \in src : j <= i][2])

\* C11: the attributes of every slice node written are the layer-level keys
\* (StartTime, EndTime as LayerStartTime, LayerEndTime, the others unchanged)
\* and the part-level keys (StartTime, EndTime as PartStartTime, PartEndTime,
\* the others unchanged); where both levels store under one key the value is
\* the part-level one; StartTime and EndTime are no keys of the node.
C11_MergedAttributes ==
  [][ \A stem \in DOMAIN input_dir.files : \A i \in 1..Len(GroupsOf(stem)) :
        WritesNode(stem, i) =>
          LET layer == Bodies[input_dir.files[stem]].properties
              part == GroupsOf(stem)[i].properties
              attrs == Nodes(h5_files', GroupsOf(stem)[i].name)[SliceKey(stem)].attrs
          IN /\ DOMAIN attrs = {Dest(layer[n][1], "Layer") : n \in 1..Len(layer)}
                               \cup {Dest(part[n][1], "Part") : n \in 1..Len(part)}
             /\ \A key \in DOMAIN attrs :
                  attrs[key] = IF Sources(part, "Part", key) # {}
                               THEN LastStored(part, "Part", key)
                               ELSE LastStored(layer, "Layer", key)
             /\ "StartTime" \notin DOMAIN attrs
             /\ "EndTime" \notin DOMAIN attrs ]_vars

\* A slice node whose layerThickness and PartStartTime were given at both
\* levels and hold the part-level values.
C11_Witness ==
  \E g \in DOMAIN h5_files : \E k \in DOMAIN Nodes(h5_files, g) :
    LET attrs == Nodes(h5_files, g)[k].attrs
    IN /\ \E stem \in GlobPaths :
            /\ SliceKey(stem) = k
            /\ HasKey(Bodies[input_dir.files[stem]].properties, PART_START_TIME_KEY)
            /\ HasKey(Bodies[input_dir.files[stem]].properties, "layerThickness")
       /\ LAYER_START_TIME_KEY \in DOMAIN attrs
       /\ PART_START_TIME_KEY \in DOMAIN attrs
       /\ attrs[PART_START_TIME_KEY] = StrV(3)
       /\ attrs["layerThickness"] = IntV(40)

\* The input files are well-formed: every file has both bitgain properties
\* and layerThickness, every selected group has all six channels, no offset
\* exceeds half the length of the channel it trims, and no two files have
\* the same slice index.
WellFormedInput ==
  /\ input_dir.exists
  /\ \A stem \in GlobPaths :
       LET file == Bodies[input_dir.files[stem]]
       IN /\ HasKey(file.properties, "Bitgain OS 1")
          /\ HasKey(file.properties, "Bitgain OS 2")
          /\ HasKey(file.properties, "layerThickness")
          /\ \A i \in 1..Len(file.groups) :
               GroupSelected(file.groups[i].name) =>
                 /\ DOMAIN file.groups[i].channels = ChannelNames
                 /\ \A c \in Trimmed : 2 * OffsetOf(c) <= Len(file.groups[i].channels[c])
  /\ \A s, t \in GlobPaths : SliceKey(s) = SliceKey(t) => s = t

\* C12: a run over well-formed input files, also when some group is in only
\* some of the files, never ends in an error; when it is done every input
\* has been consumed and every container has its Index dataset and is closed.
C12_WellFormedCompletes ==
  WellFormedInput =>
    /\ pc # "error"
    /\ pc = "done" =>
         /\ paths = {}
         /\ \A g \in DOMAIN h5_files : h5_files[g].Index.present /\ ~h5_files[g].open

\* C13: a container holds at most one slice node per slice index, keyed by
\* the decimal string of the integer in the file name; when the loop reaches
\* a selected group whose container already has the node of the file's slice
\* index, the run aborts and that node, like every other, stays as it was.
C13_OneNodePerSliceIndex ==
  [][ /\ \A g \in DOMAIN h5_files' : \A k \in DOMAIN Nodes(h5_files', g) :
           /\ k = DecStr(DecVal(k))
           /\ \A l \in DOMAIN Nodes(h5_files', g) : DecVal(k) = DecVal(l) => k = l
      /\ \A stem \in DOMAIN input_dir.files : \A i \in 1..Len(GroupsOf(stem)) :
           LET g == GroupsOf(stem)[i].name
           IN ( /\ Converts(stem)
                /\ Encountered(stem, i)
                /\ GroupSelected(g)
                /\ g \in DOMAIN h5_files
                /\ SliceKey(stem) \in DOMAIN Nodes(h5_files, g) )
              => /\ pc' = "error"
                 /\ err'.stage = "main"
                 /\ Nodes(h5_files', g) = Nodes(h5_files, g)
      /\ NodesKept ]_vars

\* Slice1 and Slice01 both hold a group, and the run was aborted at the
\* second of them.
C13_Witness ==
  /\ pc = "error"
  /\ err.kind = "ValueError"
  /\ \E s, t \in GlobPaths : s # t /\ SliceKey(s) = SliceKey(t)
  /\ \E g \in DOMAIN h5_files :
       DOMAIN Nodes(h5_files, g) = {SliceKey(<<"S", "0", "1">>)}

\* C14: a slice node written from six input channels of one length holds six
\* datasets of one length.
C14_SameNumberOfPoints ==
  [][ \A stem \in DOMAIN input_dir.files : \A i \in 1..Len(GroupsOf(stem)) :
        LET group == GroupsOf(stem)[i]
        IN ( /\ WritesNode(stem, i)
             /\ DOMAIN group.channels = ChannelNames
             /\ \A c, d \in ChannelNames :
                  Len(group.channels[c]) = Len(group.channels[d]) )
           => LET stored == Nodes(h5_files', group.name)[SliceKey(stem)].datasets
              IN /\ DOMAIN stored = ChannelNames
                 /\ \A c, d \in ChannelNames :
                      Len(stored[c].data) = Len(stored[d].data) ]_vars

====
